---------------------------- MODULE Spec2Model ----------------------------
(***************************************************************************)
(* Release resolution engine of github-releases-mcp (src/src/utils.ts and  *)
(* the tool handlers of main.ts).                                          *)
(*                                                                         *)
(* A JavaScript string is modelled as a sequence of one-character strings, *)
(* so that the regular expressions of extractVersion / extractPackageName  *)
(* and the grammar of semver.clean are computed character by character.    *)
(***************************************************************************)
EXTENDS Integers, Sequences, FiniteSets, TLC

(***************************************************************************)
(* Characters and elementary string functions                              *)
(***************************************************************************)
Digits == {"0", "1", "2", "3", "4", "5", "6", "7", "8", "9"}

Letters == <<"a", "b", "c", "d", "e", "f", "g", "h", "i", "j", "k", "l", "m",
             "n", "o", "p", "q", "r", "s", "t", "u", "v", "w", "x", "y", "z">>

LetterSet == {Letters[i] : i \in 1..Len(Letters)}

\* characters of a semver identifier: [0-9A-Za-z-]
IdentChars == Digits \cup LetterSet \cup {"-"}

Whitespace == {" "}

Alphabet == IdentChars \cup Whitespace \cup {".", "@", "/", "=", "+"}

\* [^@/]
NotAtSlash == Alphabet \ {"@", "/"}

DigitVal(c) ==
  CASE c = "0" -> 0 [] c = "1" -> 1 [] c = "2" -> 2 [] c = "3" -> 3
    [] c = "4" -> 4 [] c = "5" -> 5 [] c = "6" -> 6 [] c = "7" -> 7
    [] c = "8" -> 8 [] c = "9" -> 9

\* UTF-16 code unit of a character of IdentChars (string comparison of
\* alphanumeric pre-release identifiers)
CharCode(c) ==
  IF c = "-" THEN 45
  ELSE IF c \in Digits THEN 48 + DigitVal(c)
  ELSE 96 + (CHOOSE i \in 1..Len(Letters) : Letters[i] = c)

\* the value JavaScript's null / a failed match is modelled by: a sequence
\* that is not a string (its element is not a character)
Null == <<"null">>

\* the element of a one-element set.  TLC evaluates the argument of an
\* operator anew at each use; the operators below bind a computed string
\* with  The({ e(x) : x \in {string} })  so that it is computed once
The(S) == CHOOSE e \in S : TRUE

\* first index >= i of s that is past the end or holds a character outside S
RunEnd(S, s, i) ==
  CHOOSE j \in i..(Len(s) + 1) :
    /\ \A k \in i..(j - 1) : s[k] \in S
    /\ (j = Len(s) + 1 \/ s[j] \notin S)

AllIn(S, s) == \A k \in 1..Len(s) : s[k] \in S

\* String.prototype.trim
Trim(s) ==
  LET a == RunEnd(Whitespace, s, 1)
  IN IF a > Len(s) THEN <<>>
     ELSE LET b == CHOOSE j \in a..Len(s) :
                     /\ s[j] \notin Whitespace
                     /\ \A k \in (j + 1)..Len(s) : s[k] \in Whitespace
          IN SubSeq(s, a, b)

\* the decimal number a non-empty digit string denotes
RECURSIVE Num(_)
Num(s) ==
  IF Len(s) = 0 THEN 0
  ELSE The({ 10 * Num(front) + DigitVal(s[Len(s)])
             : front \in {SubSeq(s, 1, Len(s) - 1)} })

NotDot == Alphabet \ {"."}
NotPlus == Alphabet \ {"+"}
DigitsAndDot == Digits \cup {"."}
EqualsAndV == {"=", "v"}

\* s.split('.')
RECURSIVE Split(_)
Split(s) ==
  The({ IF j > Len(s) THEN <<s>>
        ELSE The({ <<SubSeq(s, 1, j - 1)>> \o Split(rest)
                   : rest \in {SubSeq(s, j + 1, Len(s))} })
        : j \in {RunEnd(NotDot, s, 1)} })

\* parts.join('.')
RECURSIVE Join(_)
Join(parts) ==
  IF Len(parts) = 0 THEN <<>>
  ELSE IF Len(parts) = 1 THEN parts[1]
  ELSE parts[1] \o <<".">> \o Join(Tail(parts))

(***************************************************************************)
(* The semver library as utils.ts uses it (strict mode, no options)        *)
(***************************************************************************)
\* (0|[1-9]\d*)
IsNumericId(s) ==
  /\ Len(s) > 0
  /\ AllIn(Digits, s)
  /\ (Len(s) > 1 => s[1] # "0")

\* \d+\.\d+\.\d+ matching the whole of t
IsDigitTriple(t) ==
  /\ AllIn(DigitsAndDot, t)
  /\ \E p \in {Split(t)} : Len(p) = 3 /\ \A k \in 1..3 : Len(p[k]) > 0

\* a pre-release identifier: 0|[1-9]\d*|\d*[a-zA-Z-][a-zA-Z0-9-]*
IsPreId(s) ==
  /\ Len(s) > 0
  /\ AllIn(IdentChars, s)
  /\ (AllIn(Digits, s) => IsNumericId(s))

\* a build identifier: [0-9A-Za-z-]+
IsBuildId(s) == Len(s) > 0 /\ AllIn(IdentChars, s)

NoSemVer == [ok |-> FALSE, major |-> 0, minor |-> 0, patch |-> 0,
             prerelease |-> <<>>, version |-> Null]

\* the SemVer object of a main triple, pre-release identifiers and
\* pre-release flag that conform
SemVerOf(main, nums, hasPre, pre) ==
  [ok |-> TRUE, major |-> Num(nums[1]), minor |-> Num(nums[2]),
   patch |-> Num(nums[3]), prerelease |-> pre,
   version |-> main \o (IF hasPre THEN <<"-">> \o Join(pre) ELSE <<>>)]

\* MAIN(-PRERELEASE)?(\+BUILD)?$ on the digits-and-dots run main and what
\* follows it
SemVerParts(main, rest) ==
  LET hasPre == Len(rest) > 0 /\ rest[1] = "-"
  IN The({
       The({
         IF /\ IsDigitTriple(main)
            /\ \A k \in 1..3 : IsNumericId(nums[k])
            /\ (~hasPre => plus = 1)
            /\ (hasPre => \A k \in 1..Len(pre) : IsPreId(pre[k]))
            /\ (plus <= Len(rest) =>
                  \A k \in 1..Len(build) : IsBuildId(build[k]))
         THEN SemVerOf(main, nums, hasPre, pre)
         ELSE NoSemVer
         : nums \in {Split(main)},
           pre \in {IF hasPre THEN Split(SubSeq(rest, 2, plus - 1))
                    ELSE <<>>},
           build \in {Split(SubSeq(rest, plus + 1, Len(rest)))} })
       : plus \in {RunEnd(NotPlus, rest, 1)} })

\* the FULL pattern ^v?MAIN(-PRERELEASE)?(\+BUILD)?$ on a trimmed string
SemVerTrimmed(s) ==
  LET a == IF Len(s) > 0 /\ s[1] = "v" THEN 2 ELSE 1
  IN The({ The({ SemVerParts(main, rest)
                 : main \in {SubSeq(s, a, e - 1)},
                   rest \in {SubSeq(s, e, Len(s))} })
           : e \in {RunEnd(DigitsAndDot, s, a)} })

\* new SemVer(version): version.trim() matched against the FULL pattern;
\* ok is FALSE where the constructor throws
SemVer(version) ==
  IF version = Null THEN NoSemVer
  ELSE The({ SemVerTrimmed(s) : s \in {Trim(version)} })

\* version.trim().replace(/^[=v]+/, '')
stripEqualsV(version) ==
  The({ SubSeq(t, RunEnd(EqualsAndV, t, 1), Len(t)) : t \in {Trim(version)} })

\* semver.clean(version): the canonical version string of the stripped
\* string, or null
semverClean(version) ==
  The({ SemVer(s).version : s \in {stripEqualsV(version)} })

\* compareIdentifiers of semver/internal/identifiers.js
RECURSIVE StrLess(_, _)
StrLess(a, b) ==
  IF Len(b) = 0 THEN FALSE
  ELSE IF Len(a) = 0 THEN TRUE
  ELSE IF CharCode(a[1]) # CharCode(b[1]) THEN CharCode(a[1]) < CharCode(b[1])
  ELSE StrLess(Tail(a), Tail(b))

compareIdentifiers(a, b) ==
  LET anum == AllIn(Digits, a)
      bnum == AllIn(Digits, b)
  IN IF anum /\ bnum
       THEN (IF Num(a) = Num(b) THEN 0 ELSE IF Num(a) < Num(b) THEN -1 ELSE 1)
     ELSE IF a = b THEN 0
     ELSE IF anum /\ ~bnum THEN -1
     ELSE IF bnum /\ ~anum THEN 1
     ELSE IF StrLess(a, b) THEN -1 ELSE 1

\* SemVer.comparePre
RECURSIVE comparePreFrom(_, _, _)
comparePreFrom(p, q, i) ==
  IF i > Len(p) /\ i > Len(q) THEN 0
  ELSE IF i > Len(q) THEN 1
  ELSE IF i > Len(p) THEN -1
  ELSE IF compareIdentifiers(p[i], q[i]) = 0 THEN comparePreFrom(p, q, i + 1)
  ELSE compareIdentifiers(p[i], q[i])

comparePre(x, y) ==
  IF Len(x.prerelease) > 0 /\ Len(y.prerelease) = 0 THEN -1
  ELSE IF Len(x.prerelease) = 0 /\ Len(y.prerelease) > 0 THEN 1
  ELSE IF Len(x.prerelease) = 0 /\ Len(y.prerelease) = 0 THEN 0
  ELSE comparePreFrom(x.prerelease, y.prerelease, 1)

\* SemVer.compareMain
compareMain(x, y) ==
  IF x.major # y.major THEN (IF x.major < y.major THEN -1 ELSE 1)
  ELSE IF x.minor # y.minor THEN (IF x.minor < y.minor THEN -1 ELSE 1)
  ELSE IF x.patch # y.patch THEN (IF x.patch < y.patch THEN -1 ELSE 1)
  ELSE 0

\* semver.compare(a, b) throws a TypeError when either string is no version
semverThrows(a, b) == ~SemVer(a).ok \/ ~SemVer(b).ok

\* semver.compare(a, b) on two version strings: -1, 0 or 1
semverCompare(a, b) ==
  The({ IF compareMain(x, y) # 0 THEN compareMain(x, y) ELSE comparePre(x, y)
        : x \in {SemVer(a)}, y \in {SemVer(b)} })

semverEq(a, b)  == semverCompare(a, b) = 0
semverGte(a, b) == semverCompare(a, b) >= 0
semverLte(a, b) == semverCompare(a, b) <= 0

(***************************************************************************)
(* utils.ts: version normalizer and package scoper                         *)
(***************************************************************************)
\* tagName.match(/@(\d+\.\d+\.\d+)$/): capture group 1, or Null
matchTrailingAt(tagName) ==
  The({ IF starts = {} THEN Null
        ELSE SubSeq(tagName,
                    (CHOOSE i \in starts : \A j \in starts : i <= j) + 1,
                    Len(tagName))
        : starts \in {{i \in 1..Len(tagName) :
                         /\ tagName[i] = "@"
                         /\ \E t \in {SubSeq(tagName, i + 1, Len(tagName))} :
                              IsDigitTriple(t)}} })

\* tagName.match(/^v?(\d+\.\d+\.\d+)/): capture group 1, or Null
matchLeadingV(tagName) ==
  LET a == IF Len(tagName) > 0 /\ tagName[1] = "v" THEN 2 ELSE 1
  IN The({
       IF e1 > a /\ e1 <= Len(tagName) /\ tagName[e1] = "."
       THEN The({
              IF e2 > e1 + 1 /\ e2 <= Len(tagName) /\ tagName[e2] = "."
              THEN The({ IF e3 > e2 + 1 THEN SubSeq(tagName, a, e3 - 1)
                         ELSE Null
                         : e3 \in {RunEnd(Digits, tagName, e2 + 1)} })
              ELSE Null
              : e2 \in {RunEnd(Digits, tagName, e1 + 1)} })
       ELSE Null
       : e1 \in {RunEnd(Digits, tagName, a)} })

\* a variant that tries the leading pattern first
firstMatchLeadingFirst(tagName) ==
  The({ IF m # Null THEN m ELSE matchTrailingAt(tagName)
        : m \in {matchLeadingV(tagName)} })

\* a.match(..) || b.match(..)
firstMatch(tagName) ==
  The({ IF m # Null THEN m ELSE matchLeadingV(tagName)
        : m \in {matchTrailingAt(tagName)} })

\* a variant that knows the leading pattern only
extractVersionLeadingOnly(tagName) ==
  The({ IF versionMatch # Null THEN semverClean(versionMatch)
        ELSE semverClean(tagName)
        : versionMatch \in {matchLeadingV(tagName)} })

extractVersion(tagName) ==
  The({ IF versionMatch # Null THEN semverClean(versionMatch)
        ELSE semverClean(tagName)
        : versionMatch \in {firstMatch(tagName)} })

\* str.match(/^(@[^@/]+\/[^@/]+|[^@/]+)@/): capture group 1, or Null
\* the first alternative, @scope/name followed by @
matchScopedPrefix(str) ==
  IF Len(str) > 0 /\ str[1] = "@"
  THEN The({
         IF s1 > 2 /\ s1 <= Len(str) /\ str[s1] = "/"
         THEN The({ IF s2 > s1 + 1 /\ s2 <= Len(str) /\ str[s2] = "@"
                    THEN SubSeq(str, 1, s2 - 1) ELSE Null
                    : s2 \in {RunEnd(NotAtSlash, str, s1 + 1)} })
         ELSE Null
         : s1 \in {RunEnd(NotAtSlash, str, 2)} })
  ELSE Null

\* the second alternative, name followed by @
matchPlainPrefix(str) ==
  The({ IF n1 > 1 /\ n1 <= Len(str) /\ str[n1] = "@"
        THEN SubSeq(str, 1, n1 - 1) ELSE Null
        : n1 \in {RunEnd(NotAtSlash, str, 1)} })

matchPackagePrefix(str) ==
  The({ IF m # Null THEN m ELSE matchPlainPrefix(str)
        : m \in {matchScopedPrefix(str)} })

DefaultPackage == <<"d", "e", "f", "a", "u", "l", "t">>

\* a variant that looks at the display name first
extractPackageNameNameFirst(release) ==
  The({ IF nameMatch # Null THEN nameMatch
        ELSE The({ IF tagMatch # Null THEN tagMatch ELSE DefaultPackage
                   : tagMatch \in {matchPackagePrefix(release.tag_name)} })
        : nameMatch \in {matchPackagePrefix(release.name)} })

extractPackageName(release) ==
  The({ IF tagMatch # Null THEN tagMatch
        ELSE The({ IF nameMatch # Null THEN nameMatch ELSE DefaultPackage
                   : nameMatch \in {matchPackagePrefix(release.name)} })
        : tagMatch \in {matchPackagePrefix(release.tag_name)} })

(***************************************************************************)
(* Bounds and the inputs the model draws from                              *)
(***************************************************************************)
\* longest remote collection built from arbitrary releases
MaxHead == 2

\* most full pages a remote collection has
MaxFullPages == 2

\* const perPage = 100
perPage == 100

\* sizes of the final, short page of a paginated remote collection
ShortSizes == {0, 1}

Str_v100     == <<"v", "1", ".", "0", ".", "0">>
Str_100      == <<"1", ".", "0", ".", "0">>
Str_v120     == <<"v", "1", ".", "2", ".", "0">>
Str_v200beta == <<"v", "2", ".", "0", ".", "0", "-", "b", "e", "t", "a">>
Str_v200     == <<"v", "2", ".", "0", ".", "0">>
Str_200      == <<"2", ".", "0", ".", "0">>
Str_pkg100   == <<"p", "k", "g", "@", "1", ".", "0", ".", "0">>
Str_pkg120   == <<"p", "k", "g", "@", "1", ".", "2", ".", "0">>
Str_nightly  == <<"n", "i", "g", "h", "t", "l", "y">>
Str_v010     == <<"v", "0", ".", "1", ".", "0">>
Str_at120    == <<"@", "1", ".", "2", ".", "0">>
Str_latest   == <<"l", "a", "t", "e", "s", "t">>
Str_pkg      == <<"p", "k", "g">>
Str_empty    == <<>>

\* the (tag_name, name, prerelease) triples remote releases are built from
ReleaseKinds ==
  { [tag_name |-> Str_v100,     name |-> Str_empty,  prerelease |-> FALSE],
    [tag_name |-> Str_100,      name |-> Str_empty,  prerelease |-> FALSE],
    [tag_name |-> Str_v120,     name |-> Str_pkg120, prerelease |-> FALSE],
    [tag_name |-> Str_v200beta, name |-> Str_empty,  prerelease |-> TRUE],
    [tag_name |-> Str_v200,     name |-> Str_empty,  prerelease |-> FALSE],
    [tag_name |-> Str_pkg100,   name |-> Str_empty,  prerelease |-> FALSE],
    [tag_name |-> Str_nightly,  name |-> Str_empty,  prerelease |-> TRUE] }

\* the release that pads a collection to a given number of pages
FillKind == [tag_name |-> Str_v010, name |-> Str_empty, prerelease |-> FALSE]

\* interface GitHubRelease (published_at and body play no part in a query)
MkRelease(i, k) ==
  [id |-> i, tag_name |-> k.tag_name, name |-> k.name,
   prerelease |-> k.prerelease]

\* collections of at most MaxHead arbitrary releases
SmallCollections ==
  UNION { { [i \in 1..n |-> MkRelease(i, f[i])] : f \in [1..n -> ReleaseKinds] }
          : n \in 0..MaxHead }

\* the releases a paginated collection ends with
LastKinds ==
  { FillKind,
    [tag_name |-> Str_v200, name |-> Str_empty, prerelease |-> FALSE] }

\* a collection of p full pages and a last page of k releases: padding
\* releases and a last release
PagedCollection(p, k, last) ==
  [i \in 1..(p * perPage + k) |->
     MkRelease(i, IF i = p * perPage + k THEN last ELSE FillKind)]

\* collections of one to MaxFullPages full pages and a short last page
PagedCollections ==
  { PagedCollection(p, k, last)
    : p \in 1..MaxFullPages, k \in ShortSizes, last \in LastKinds }

\* the small collections and the collections of exactly one full page
Collections ==
  SmallCollections \cup { PagedCollection(1, 0, last) : last \in LastKinds }

\* version strings a caller passes
VersionInputs == {Str_100, Str_at120, Str_200, Str_latest}

\* the optional package argument: undefined (Null) or a package name
PackageInputs == {Null, Str_pkg}

\* the optional limit argument: 0 stands for undefined as well (both falsy)
LimitInputs == {-1, 0, 1}

ToolCalls ==
  [tool : {"github_release_info"}, version : VersionInputs,
   fromVersion : {Null}, toVersion : {Null},
   packageName : PackageInputs, limit : {0}, includePreReleases : {FALSE}]
  \cup
  [tool : {"github_releases_compare"}, version : {Null},
   fromVersion : VersionInputs, toVersion : VersionInputs,
   packageName : PackageInputs, limit : {0}, includePreReleases : {FALSE}]
  \cup
  [tool : {"github_releases_list"}, version : {Null},
   fromVersion : {Null}, toVersion : {Null},
   packageName : PackageInputs, limit : LimitInputs,
   includePreReleases : BOOLEAN]

\* the strings the normalizer and the scoper are probed with: a tag is a
\* lead, a dotted triple and a tail
Str_astro  == <<"@", "a", "s", "t", "r", "o", "j", "s", "/", "v", "u", "e">>
Str_oth    == <<"o", "t", "h">>
Str_scoped == <<"@", "b", "/", "w">>
Str_beta   == <<"-", "b", "e", "t", "a">>

Lead_none   == <<>>
Lead_v      == <<"v">>
Lead_at     == <<"@">>
Lead_equals == <<"=">>
Lead_space  == <<" ">>
Lead_pkg    == Str_pkg \o <<"@">>
Lead_astro  == Str_astro \o <<"@">>
Lead_v100at == Str_v100 \o <<"@">>

ProbeLeads ==
  {Lead_none, Lead_v, Lead_at, Lead_equals, Lead_space, Lead_pkg, Lead_astro,
   Lead_v100at}

\* numerals without a leading zero, and one with
CanonicalNumerals == {<<"0">>, <<"1">>, <<"2">>, <<"1", "0">>}
ProbeMajors  == {<<"0">>, <<"1">>, <<"2">>, <<"1", "0">>, <<"0", "1">>}
ProbeMinors  == {<<"0">>, <<"2">>, <<"0", "1">>}
ProbePatches == {<<"0">>, <<"1", "0">>, <<"0", "1">>}

ProbeTails ==
  {<<>>, Str_beta, <<"+", "b", "1">>, <<".", "4">>, <<"-", "0", "1">>, <<" ">>}

\* display names: without a package convention, with a plain prefix, with a
\* scoped prefix
ProbeNames ==
  {Str_v100, Str_oth \o <<"@">> \o Str_100, Str_scoped \o <<"@">> \o Str_100}

\* the collection a probed version string is looked up in
ProbeReleases ==
  <<MkRelease(1, [tag_name |-> Str_v200, name |-> Str_empty,
                  prerelease |-> FALSE]),
    MkRelease(2, [tag_name |-> Str_nightly, name |-> Str_empty,
                  prerelease |-> TRUE]),
    MkRelease(3, [tag_name |-> Str_200, name |-> Str_empty,
                  prerelease |-> FALSE]),
    MkRelease(4, [tag_name |-> Lead_pkg \o <<"0", ".", "2", ".", "1", "0">>,
                  name |-> Str_empty, prerelease |-> FALSE])>>

(***************************************************************************)
(* utils.ts: the resolver's computations on a fetched collection           *)
(***************************************************************************)
\* a variant that ignores the package filter
matchesAnyPackage(release, packageName) == TRUE

\* !packageName || extractPackageName(release) === packageName
matchesPackage(release, packageName) ==
  \/ packageName = Null
  \/ packageName = <<>>
  \/ extractPackageName(release) = packageName

\* a variant that ignores the package filter
matchesExactAnyPackage(release, cleanTargetVersion, packageName) ==
  \E releaseVersion \in {extractVersion(release.tag_name)} :
    /\ releaseVersion # Null
    /\ semverEq(releaseVersion, cleanTargetVersion)

\* the predicate of releases.find(...) in fetchReleaseByVersion
matchesExact(release, cleanTargetVersion, packageName) ==
  /\ \E releaseVersion \in {extractVersion(release.tag_name)} :
       /\ releaseVersion # Null
       /\ semverEq(releaseVersion, cleanTargetVersion)
  /\ matchesPackage(release, packageName)

\* a variant whose lower bound is exclusive
matchesRangeAboveFrom(release, cleanFromVersion, cleanToVersion, packageName) ==
  /\ \E version \in {extractVersion(release.tag_name)} :
       /\ version # Null
       /\ semverCompare(version, cleanFromVersion) > 0
       /\ semverLte(version, cleanToVersion)
  /\ \/ packageName = Null
     \/ extractPackageName(release) = packageName

\* a variant that keeps the releases whose tag does not resolve
matchesRangeOrNull(release, cleanFromVersion, cleanToVersion, packageName) ==
  /\ \E version \in {extractVersion(release.tag_name)} :
       \/ version = Null
       \/ /\ semverGte(version, cleanFromVersion)
          /\ semverLte(version, cleanToVersion)
  /\ \/ packageName = Null
     \/ extractPackageName(release) = packageName

\* the predicate of releases.filter(...) in fetchReleasesBetweenVersions
matchesRange(release, cleanFromVersion, cleanToVersion, packageName) ==
  /\ \E version \in {extractVersion(release.tag_name)} :
       /\ version # Null
       /\ semverGte(version, cleanFromVersion)
       /\ semverLte(version, cleanToVersion)
  /\ matchesPackage(release, packageName)

\* the comparator of .sort(...): extractVersion(x.tag_name) || ''
sortKey(release) ==
  The({ IF v = Null THEN <<>> ELSE v : v \in {extractVersion(release.tag_name)} })

compareReleases(a, b) ==
  The({ semverCompare(versionA, versionB)
        : versionA \in {sortKey(a)}, versionB \in {sortKey(b)} })

\* a variant that puts r before the elements it compares equal to
insertSortedBeforeEqual(sorted, r) ==
  The({ The({ SubSeq(sorted, 1, at - 1) \o <<r>>
                \o SubSeq(sorted, at, Len(sorted))
              : at \in {IF notLess = {} THEN Len(sorted) + 1
                        ELSE CHOOSE i \in notLess : \A j \in notLess : i <= j} })
        : notLess \in {{i \in 1..Len(sorted) :
                          compareReleases(sorted[i], r) >= 0}} })

\* one insertion of the stable sort: r goes after every element that does
\* not compare greater than it
insertSorted(sorted, r) ==
  The({ The({ SubSeq(sorted, 1, at - 1) \o <<r>>
                \o SubSeq(sorted, at, Len(sorted))
              : at \in {IF greater = {} THEN Len(sorted) + 1
                        ELSE CHOOSE i \in greater : \A j \in greater : i <= j} })
        : greater \in {{i \in 1..Len(sorted) :
                          compareReleases(sorted[i], r) > 0}} })

\* Array.prototype.sort with the comparator above (stable since ES2019)
RECURSIVE sortReleases(_)
sortReleases(list) ==
  IF Len(list) = 0 THEN <<>>
  ELSE The({ insertSorted(sorted, list[Len(list)])
             : sorted \in {sortReleases(SubSeq(list, 1, Len(list) - 1))} })

\* the comparator runs on every element of a list of two or more; it throws
\* on an element whose sort key is no version
sortThrows(list) ==
  /\ Len(list) >= 2
  /\ \E i \in 1..Len(list) : \E k \in {sortKey(list[i])} : ~SemVer(k).ok

\* what a resolver function settles with: a value (a sequence of releases)
\* or a thrown error
Returned(items) == [threw |-> "none", detail |-> Null, items |-> items]
Thrown(kind, detail) == [threw |-> kind, detail |-> detail, items |-> <<>>]

\* a variant that returns the last match
findLast(releases, cleanTargetVersion, packageName) ==
  The({ IF hits = {} THEN <<>>
        ELSE <<releases[CHOOSE i \in hits : \A j \in hits : i >= j]>>
        : hits \in {{i \in 1..Len(releases) :
                       matchesExact(releases[i], cleanTargetVersion,
                                    packageName)}} })

\* releases.find(...) || null for a clean target: <<release>>, or <<>> for
\* null
findFirst(releases, cleanTargetVersion, packageName) ==
  The({ IF hits = {} THEN <<>>
        ELSE <<releases[CHOOSE i \in hits : \A j \in hits : i <= j]>>
        : hits \in {{i \in 1..Len(releases) :
                       matchesExact(releases[i], cleanTargetVersion,
                                    packageName)}} })

\* fetchReleaseByVersion after the fetch
findReleaseByVersion(releases, version, packageName) ==
  The({ IF cleanTargetVersion = Null THEN Thrown("InvalidVersion", version)
        ELSE Returned(findFirst(releases, cleanTargetVersion, packageName))
        : cleanTargetVersion \in {extractVersion(version)} })

\* releases.filter(...) of fetchReleasesBetweenVersions
filterRange(releases, cleanFromVersion, cleanToVersion, packageName) ==
  LET keep(release) == matchesRange(release, cleanFromVersion, cleanToVersion,
                                    packageName)
  IN SelectSeq(releases, keep)

\* a variant that swaps the bounds when from is the greater
filterReleasesBetweenSwapped(releases, fromVersion, toVersion, packageName) ==
  The({ IF cleanFromVersion = Null \/ cleanToVersion = Null
          THEN Thrown("InvalidVersion",
                      IF cleanFromVersion = Null THEN fromVersion
                      ELSE toVersion)
        ELSE The({ IF sortThrows(kept) THEN Thrown("TypeError", Null)
                   ELSE Returned(sortReleases(kept))
                   : kept \in {IF semverCompare(cleanFromVersion,
                                                cleanToVersion) > 0
                                 THEN filterRange(releases, cleanToVersion,
                                                  cleanFromVersion, packageName)
                               ELSE filterRange(releases, cleanFromVersion,
                                                cleanToVersion, packageName)} })
        : cleanFromVersion \in {extractVersion(fromVersion)},
          cleanToVersion \in {extractVersion(toVersion)} })

\* fetchReleasesBetweenVersions after the fetch
filterReleasesBetween(releases, fromVersion, toVersion, packageName) ==
  The({ IF cleanFromVersion = Null \/ cleanToVersion = Null
          THEN Thrown("InvalidVersion",
                      IF cleanFromVersion = Null THEN fromVersion
                      ELSE toVersion)
        ELSE The({ IF sortThrows(kept) THEN Thrown("TypeError", Null)
                   ELSE Returned(sortReleases(kept))
                   : kept \in {filterRange(releases, cleanFromVersion,
                                           cleanToVersion, packageName)} })
        : cleanFromVersion \in {extractVersion(fromVersion)},
          cleanToVersion \in {extractVersion(toVersion)} })

\* releases.filter(release => extractPackageName(release) === packageName)
filterPackage(releases, packageName) ==
  LET keep(release) == extractPackageName(release) = packageName
  IN IF packageName # Null /\ packageName # <<>>
       THEN SelectSeq(releases, keep) ELSE releases

\* a variant that never drops a pre-release
filterPreReleasesNever(releases, includePreReleases) == releases

\* releases.filter(release => !release.prerelease)
filterPreReleases(releases, includePreReleases) ==
  LET keep(release) == ~release.prerelease
  IN IF ~includePreReleases THEN SelectSeq(releases, keep) ELSE releases

\* a variant that slices for every limit given: slice(0, -n) drops the
\* last n releases
applyLimitAnySign(releases, limit) ==
  IF limit = 0 THEN releases
  ELSE IF limit > 0
    THEN SubSeq(releases, 1, IF limit < Len(releases) THEN limit
                             ELSE Len(releases))
  ELSE SubSeq(releases, 1, Len(releases) + limit)

\* releases.slice(0, limit)
applyLimit(releases, limit) ==
  IF limit # 0 /\ limit > 0
    THEN SubSeq(releases, 1, IF limit < Len(releases) THEN limit
                             ELSE Len(releases))
    ELSE releases

\* a variant that truncates before it filters
listReleasesLimitFirst(releases, packageName, includePreReleases, limit) ==
  The({ The({ Returned(filterPreReleases(byPackage, includePreReleases))
              : byPackage \in {filterPackage(cut, packageName)} })
        : cut \in {applyLimit(releases, limit)} })

\* the github_releases_list handler after the fetch
listReleases(releases, packageName, includePreReleases, limit) ==
  The({ The({ Returned(applyLimit(byPre, limit))
              : byPre \in {filterPreReleases(byPackage, includePreReleases)} })
        : byPackage \in {filterPackage(releases, packageName)} })

\* what a tool call computes from the collection fetchAllReleases returned
resolve(call, releases) ==
  IF call.tool = "github_release_info"
    THEN findReleaseByVersion(releases, call.version, call.packageName)
  ELSE IF call.tool = "github_releases_compare"
    THEN filterReleasesBetween(releases, call.fromVersion, call.toVersion,
                               call.packageName)
  ELSE listReleases(releases, call.packageName, call.includePreReleases,
                    call.limit)

\* a variant whose catch block answers without isError
toolResponseWithoutErrorFlag(r) ==
  [isError |-> FALSE, error |-> r.threw, detail |-> r.detail,
   found |-> Len(r.items) > 0, releases |-> r.items]

\* the tool response a handler builds: the catch block sets isError, an
\* empty or null result is reported as text without isError
toolResponse(r) ==
  IF r.threw # "none"
    THEN [isError |-> TRUE, error |-> r.threw, detail |-> r.detail,
          found |-> FALSE, releases |-> <<>>]
    ELSE [isError |-> FALSE, error |-> "none", detail |-> Null,
          found |-> Len(r.items) > 0, releases |-> r.items]

(***************************************************************************)
(* The state machine: tool calls suspended at their page fetches           *)
(***************************************************************************)
VARIABLES
  remote,       \* the repository's release collection at the GitHub API
  pc,           \* per call: "idle", "awaitFetch", "awaitJson" or "done"
  call,         \* per call: the arguments of the tool call
  page,         \* per call: fetchAllReleases' page
  allReleases,  \* per call: fetchAllReleases' allReleases
  response,     \* per call: the response the pending await holds
  caught,       \* per call: what fetchAllReleases' catch block caught
  requested,    \* per call: the page numbers requested from the API, in order
  inflight,     \* per call: the page requests the API has not answered yet
  reply,        \* per call: the tool response returned to the client
  probe         \* one string put through the normalizer and the scoper

vars == <<remote, pc, call, page, allReleases, response, caught, requested,
          inflight, reply, probe>>

NoCall == [tool |-> "none", version |-> Null, fromVersion |-> Null,
           toVersion |-> Null, packageName |-> Null, limit |-> 0,
           includePreReleases |-> FALSE]

NoResponse == [ok |-> FALSE, body |-> "none", items |-> <<>>]

NoReply == [isError |-> FALSE, error |-> "pending", detail |-> Null,
            found |-> FALSE, releases |-> <<>>]

\* the releases the API holds on page n for per_page = perPage
PageOf(coll, n) ==
  SubSeq(coll, (n - 1) * perPage + 1,
         IF n * perPage < Len(coll) THEN n * perPage ELSE Len(coll))

InitCalls(ids, collections) ==
  /\ remote \in collections
  /\ pc = [q \in ids |-> "idle"]
  /\ call = [q \in ids |-> NoCall]
  /\ page = [q \in ids |-> 1]
  /\ allReleases = [q \in ids |-> <<>>]
  /\ response = [q \in ids |-> NoResponse]
  /\ caught = [q \in ids |-> "none"]
  /\ requested = [q \in ids |-> <<>>]
  /\ inflight = [q \in ids |-> {}]
  /\ reply = [q \in ids |-> NoReply]

\* no string is being probed
NoProbe == [pc |-> "none"]

Init == InitCalls({1}, Collections) /\ probe = NoProbe

\* one call against a repository of several pages
InitPaged == InitCalls({1}, PagedCollections) /\ probe = NoProbe

\* a handler is invoked: it calls its fetch function, which enters
\* fetchAllReleases and suspends at the fetch of page 1
StartQuery(q, c) ==
  /\ pc[q] = "idle"
  /\ pc' = [pc EXCEPT ![q] = "awaitFetch"]
  /\ call' = [call EXCEPT ![q] = c]
  /\ page' = [page EXCEPT ![q] = 1]
  /\ allReleases' = [allReleases EXCEPT ![q] = <<>>]
  /\ response' = [response EXCEPT ![q] = NoResponse]
  /\ caught' = [caught EXCEPT ![q] = "none"]
  /\ requested' = [requested EXCEPT ![q] = <<1>>]
  /\ inflight' = [inflight EXCEPT ![q] = {1}]
  /\ reply' = [reply EXCEPT ![q] = NoReply]
  /\ UNCHANGED <<remote, probe>>

\* a variant whose catch block leaves the loop and answers from the pages
\* read so far
FailFetchPartial(q, cause) ==
  /\ pc' = [pc EXCEPT ![q] = "done"]
  /\ caught' = [caught EXCEPT ![q] = cause]
  /\ inflight' = [inflight EXCEPT ![q] = @ \ {page[q]}]
  /\ \E r \in {resolve(call[q], allReleases[q])} :
       reply' = [reply EXCEPT ![q] = toolResponse(r)]
  /\ UNCHANGED <<remote, call, page, allReleases, response, requested,
                 probe>>

\* a variant whose catch block requests the failed page once more
FailFetchRetry(q, cause) ==
  /\ pc' = [pc EXCEPT ![q] = "awaitFetch"]
  /\ requested' = [requested EXCEPT ![q] = Append(@, page[q])]
  /\ inflight' = [inflight EXCEPT ![q] = {page[q]}]
  /\ response' = [response EXCEPT ![q] = NoResponse]
  /\ UNCHANGED <<remote, call, page, allReleases, caught, reply, probe>>

\* the error fetchAllReleases' catch block rethrows reaches the handler's
\* catch block, which answers with isError
FailFetch(q, cause) ==
  /\ pc' = [pc EXCEPT ![q] = "done"]
  /\ caught' = [caught EXCEPT ![q] = cause]
  /\ inflight' = [inflight EXCEPT ![q] = @ \ {page[q]}]
  /\ reply' = [reply EXCEPT ![q] = toolResponse(Thrown("FetchFailure", Null))]
  /\ UNCHANGED <<remote, call, page, allReleases, response, requested,
                 probe>>

\* await fetch(url) settles with a response whose status is ok; the body is
\* the page as JSON, or JSON that is no array, or no JSON at all
FetchOk(q) ==
  /\ pc[q] = "awaitFetch"
  /\ \E body \in {"array", "object", "invalid"} :
       response' = [response EXCEPT ![q] =
                      [ok |-> TRUE, body |-> body,
                       items |-> IF body = "array"
                                   THEN PageOf(remote, page[q]) ELSE <<>>]]
  /\ pc' = [pc EXCEPT ![q] = "awaitJson"]
  /\ inflight' = [inflight EXCEPT ![q] = @ \ {page[q]}]
  /\ UNCHANGED <<remote, call, page, allReleases, caught, requested, reply,
                 probe>>

\* await fetch(url) rejects, or settles with !response.ok
FetchFails(q) ==
  /\ pc[q] = "awaitFetch"
  /\ \E cause \in {"network", "status"} : FailFetch(q, cause)

\* await response.json() rejects
JsonFails(q) ==
  /\ pc[q] = "awaitJson"
  /\ response[q].body = "invalid"
  /\ FailFetch(q, "json")

\* a variant whose allReleases is one array shared by all calls
FinishShared(q, releases) ==
  /\ allReleases' = [p \in DOMAIN allReleases |-> releases]
  /\ pc' = [pc EXCEPT ![q] = "done"]
  /\ \E r \in {resolve(call[q], releases)} :
       reply' = [reply EXCEPT ![q] = toolResponse(r)]
  /\ UNCHANGED <<remote, call, page, response, caught, requested, inflight,
                 probe>>

\* the loop is left by break: fetchAllReleases returns, the caller computes
\* its result and the handler answers
Finish(q, releases) ==
  /\ allReleases' = [allReleases EXCEPT ![q] = releases]
  /\ pc' = [pc EXCEPT ![q] = "done"]
  /\ \E r \in {resolve(call[q], releases)} :
       reply' = [reply EXCEPT ![q] = toolResponse(r)]
  /\ UNCHANGED <<remote, call, page, response, caught, requested, inflight,
                 probe>>

\* the body read is no array or an empty array
stopsBeforeConcat(resp) == resp.body # "array" \/ Len(resp.items) = 0

\* a variant that stops after a full page as well
stopsAfterFullPage(resp) == Len(resp.items) <= perPage

\* a variant that never stops after a non-empty page
neverStopsAfterConcat(resp) == FALSE

\* the page read is shorter than perPage
stopsAfterConcat(resp) == Len(resp.items) < perPage

\* a variant that throws when the body read is no array
JsonLastPageArraysOnly(q) ==
  /\ pc[q] = "awaitJson"
  /\ response[q].body # "invalid"
  /\ \/ /\ response[q].body # "array"
        /\ FailFetch(q, "json")
     \/ /\ response[q].body = "array"
        /\ stopsBeforeConcat(response[q])
        /\ Finish(q, allReleases[q])
     \/ /\ ~stopsBeforeConcat(response[q])
        /\ stopsAfterConcat(response[q])
        /\ \E releases \in {allReleases[q] \o response[q].items} :
             Finish(q, releases)

\* await response.json() resolves with a body that ends the loop
JsonLastPage(q) ==
  /\ pc[q] = "awaitJson"
  /\ response[q].body # "invalid"
  /\ \/ /\ stopsBeforeConcat(response[q])
        /\ Finish(q, allReleases[q])
     \/ /\ ~stopsBeforeConcat(response[q])
        /\ stopsAfterConcat(response[q])
        /\ \E releases \in {allReleases[q] \o response[q].items} :
             Finish(q, releases)

\* await response.json() resolves with a full page: it is appended, page is
\* incremented and the next iteration suspends at the fetch of that page
JsonFullPage(q) ==
  /\ pc[q] = "awaitJson"
  /\ response[q].body # "invalid"
  /\ ~stopsBeforeConcat(response[q])
  /\ ~stopsAfterConcat(response[q])
  /\ allReleases' = [allReleases EXCEPT ![q] = @ \o response[q].items]
  /\ page' = [page EXCEPT ![q] = @ + 1]
  /\ requested' = [requested EXCEPT ![q] = Append(@, page[q] + 1)]
  /\ inflight' = [inflight EXCEPT ![q] = @ \cup {page[q] + 1}]
  /\ response' = [response EXCEPT ![q] = NoResponse]
  /\ pc' = [pc EXCEPT ![q] = "awaitFetch"]
  /\ UNCHANGED <<remote, call, caught, reply, probe>>

\* the handler's promise has settled and the response is sent: the locals
\* of the call are gone
Deliver(q) ==
  /\ pc[q] = "done"
  /\ pc' = [pc EXCEPT ![q] = "idle"]
  /\ call' = [call EXCEPT ![q] = NoCall]
  /\ page' = [page EXCEPT ![q] = 1]
  /\ allReleases' = [allReleases EXCEPT ![q] = <<>>]
  /\ response' = [response EXCEPT ![q] = NoResponse]
  /\ caught' = [caught EXCEPT ![q] = "none"]
  /\ requested' = [requested EXCEPT ![q] = <<>>]
  /\ inflight' = [inflight EXCEPT ![q] = {}]
  /\ reply' = [reply EXCEPT ![q] = NoReply]
  /\ UNCHANGED <<remote, probe>>

(***************************************************************************)
(* The normalizer and the scoper applied to one string at a time           *)
(***************************************************************************)
\* a tag built from its parts, and a display name, before any function is
\* applied
ProbeOf(lead, major, minor, patch, tail, name) ==
  [pc |-> "start", lead |-> lead,
   triple |-> major \o <<".">> \o minor \o <<".">> \o patch, tail |-> tail,
   tagName |-> lead \o major \o <<".">> \o minor \o <<".">> \o patch \o tail,
   name |-> name, version |-> Null, again |-> Null, packageName |-> Null,
   selected |-> Returned(<<>>)]

InitProbe ==
  /\ InitCalls({}, {<<>>})
  /\ probe \in { ProbeOf(lead, major, minor, patch, tail, name)
                  : lead \in ProbeLeads, major \in ProbeMajors,
                    minor \in ProbeMinors, patch \in ProbePatches,
                    tail \in ProbeTails, name \in ProbeNames }

\* extractVersion(tagName)
NormalizeTag ==
  /\ probe.pc = "start"
  /\ \E v \in {extractVersion(probe.tagName)} :
       probe' = [probe EXCEPT !.pc = "normalized", !.version = v]

\* extractVersion applied to a version extractVersion returned
NormalizeAgain ==
  /\ probe.pc = "normalized"
  /\ probe.version # Null
  /\ \E v \in {extractVersion(probe.version)} :
       probe' = [probe EXCEPT !.pc = "renormalized", !.again = v]

\* extractPackageName(release) for a release of that tag and name
ScopePackage ==
  /\ probe.pc \in {"normalized", "renormalized"}
  /\ \E k \in {extractPackageName([tag_name |-> probe.tagName,
                                     name |-> probe.name])} :
       probe' = [probe EXCEPT !.pc = "scoped", !.packageName = k]

\* the string used as both bounds of a range lookup in ProbeReleases
SelectByVersion ==
  /\ probe.pc = "scoped"
  /\ \E r \in {filterReleasesBetween(ProbeReleases, probe.tagName,
                                      probe.tagName, Null)} :
       probe' = [probe EXCEPT !.pc = "selected", !.selected = r]

ProbeNext ==
  \/ NormalizeTag /\ UNCHANGED <<remote, pc, call, page, allReleases, response,
                                  caught, requested, inflight, reply>>
  \/ NormalizeAgain /\ UNCHANGED <<remote, pc, call, page, allReleases,
                                    response, caught, requested, inflight,
                                    reply>>
  \/ ScopePackage /\ UNCHANGED <<remote, pc, call, page, allReleases, response,
                                  caught, requested, inflight, reply>>
  \/ SelectByVersion /\ UNCHANGED <<remote, pc, call, page, allReleases,
                                     response, caught, requested, inflight,
                                     reply>>

Next ==
  \/ \E q \in DOMAIN pc : \E c \in ToolCalls : StartQuery(q, c)
  \/ \E q \in DOMAIN pc : Deliver(q)
  \/ \E q \in DOMAIN pc : FetchOk(q)
  \/ \E q \in DOMAIN pc : FetchFails(q)
  \/ \E q \in DOMAIN pc : JsonFails(q)
  \/ \E q \in DOMAIN pc : JsonLastPage(q)
  \/ \E q \in DOMAIN pc : JsonFullPage(q)

Spec == Init /\ [][Next]_vars

PagedSpec == InitPaged /\ [][Next]_vars

ProbeSpec == InitProbe /\ [][ProbeNext]_vars

\* one fetched collection put through the exact lookup and through the
\* range lookup whose bounds are both the version of the exact lookup
LookupOf(releases, version, packageName) ==
  [pc |-> "lookup", releases |-> releases, version |-> version,
   packageName |-> packageName, exact |-> Returned(<<>>),
   range |-> Returned(<<>>)]

InitLookup ==
  /\ InitCalls({}, {<<>>})
  /\ probe \in { LookupOf(releases, version, packageName)
                  : releases \in SmallCollections, version \in VersionInputs,
                    packageName \in PackageInputs }

\* fetchReleaseByVersion on the fetched collection
LookupExact ==
  /\ probe.pc = "lookup"
  /\ \E r \in {findReleaseByVersion(probe.releases, probe.version,
                                     probe.packageName)} :
       probe' = [probe EXCEPT !.pc = "exact", !.exact = r]

\* fetchReleasesBetweenVersions on the fetched collection
LookupRange ==
  /\ probe.pc = "exact"
  /\ \E r \in {filterReleasesBetween(probe.releases, probe.version,
                                      probe.version, probe.packageName)} :
       probe' = [probe EXCEPT !.pc = "both", !.range = r]

LookupNext ==
  \/ LookupExact /\ UNCHANGED <<remote, pc, call, page, allReleases, response,
                                 caught, requested, inflight, reply>>
  \/ LookupRange /\ UNCHANGED <<remote, pc, call, page, allReleases, response,
                                 caught, requested, inflight, reply>>

LookupSpec == InitLookup /\ [][LookupNext]_vars

\* two calls in flight at once against one repository: the handlers are
\* async functions that interleave at their awaits
ConcurrentCollections ==
  {c \in Collections : Len(c) <= 1} \cup {PagedCollection(1, 0, FillKind)}

ConcurrentCalls ==
  {c \in ToolCalls :
     /\ c.packageName = Null
     /\ \/ c.tool = "github_release_info" /\ c.version = Str_100
        \/ /\ c.tool = "github_releases_compare"
           /\ c.fromVersion = Str_100 /\ c.toVersion = Str_200
        \/ c.tool = "github_releases_list" /\ c.limit = 1}

InitConcurrent == InitCalls({1, 2}, ConcurrentCollections) /\ probe = NoProbe

ConcurrentNext ==
  \/ \E q \in DOMAIN pc : \E c \in ConcurrentCalls : StartQuery(q, c)
  \/ \E q \in DOMAIN pc : Deliver(q)
  \/ \E q \in DOMAIN pc : FetchOk(q)
  \/ \E q \in DOMAIN pc : FetchFails(q)
  \/ \E q \in DOMAIN pc : JsonFails(q)
  \/ \E q \in DOMAIN pc : JsonLastPage(q)
  \/ \E q \in DOMAIN pc : JsonFullPage(q)

ConcurrentSpec == InitConcurrent /\ [][ConcurrentNext]_vars

TypeOK ==
  /\ Len(remote) <= MaxFullPages * perPage + perPage - 1
  /\ \A q \in DOMAIN pc :
       /\ pc[q] \in {"idle", "awaitFetch", "awaitJson", "done"}
       /\ page[q] \in 1..(MaxFullPages + 1)
       /\ reply[q].isError \in BOOLEAN

(***************************************************************************)
(* Properties                                                              *)
(***************************************************************************)
Calls == DOMAIN pc

\* the call has returned from a fetch that met no failure
Fetched(q) == pc[q] = "done" /\ caught[q] = "none"

\* the call has returned from a fetch every page of which was an array
FetchedArrays(q) == Fetched(q) /\ response[q].body = "array"

\* the number of full pages of the remote collection
FullPages == Len(remote) \div perPage

\* position of a release in the fetched collection of call q (0: absent)
PositionIn(q, release) ==
  IF /\ release.id \in 1..Len(allReleases[q])
     /\ allReleases[q][release.id] = release
    THEN release.id
  ELSE IF \E i \in 1..Len(allReleases[q]) : allReleases[q][i] = release
    THEN CHOOSE i \in 1..Len(allReleases[q]) : allReleases[q][i] = release
  ELSE 0

RangeCall(q) == Fetched(q) /\ call[q].tool = "github_releases_compare"
ExactCall(q) == Fetched(q) /\ call[q].tool = "github_release_info"

\* the filter is absent or the release's PackageKey equals it
InPackage(release, packageName) ==
  packageName = Null \/ extractPackageName(release) = packageName

\* the normalized bounds of a range call
CleanFrom(q) == extractVersion(call[q].fromVersion)
CleanTo(q) == extractVersion(call[q].toVersion)

\* the release's normalized version is resolvable and lies between the
\* normalized versions from and to
InRange(release, from, to) ==
  LET v == extractVersion(release.tag_name)
  IN v # Null /\ semverCompare(v, from) >= 0 /\ semverCompare(v, to) <= 0

\* both bounds of a range call resolve
BoundsResolve(q) == CleanFrom(q) # Null /\ CleanTo(q) # Null

\* C1: with `pages` full pages and a short last page, and every body an
\* array, the fetch returns the whole collection of pages*100 + k releases
\* after requesting exactly pages 1 .. pages+1; page pages+2 is never
\* requested
C1_PaginationComplete ==
  \A q \in Calls :
    /\ \A i \in 1..Len(requested[q]) : requested[q][i] <= FullPages + 1
    /\ FetchedArrays(q) =>
         /\ allReleases[q] = remote
         /\ Len(allReleases[q]) = FullPages * perPage + (Len(remote) % perPage)
         /\ requested[q] = [i \in 1..(FullPages + 1) |-> i]

C1_Witness ==
  \E q \in Calls :
    /\ FetchedArrays(q)
    /\ Len(allReleases[q]) = 2 * perPage + 1
    /\ requested[q] = <<1, 2, 3>>

\* C2: a request for page N+1 is issued only in the step that has read the
\* response of page N, found it ok and found it a full page, and at most
\* one page request is unanswered at any time
C2_Sequential ==
  [][\A q \in Calls :
       /\ Cardinality(inflight'[q]) <= 1
       /\ (Len(requested'[q]) > Len(requested[q]) /\ Len(requested[q]) > 0) =>
            /\ pc[q] = "awaitJson"
            /\ inflight[q] = {}
            /\ response[q].ok
            /\ response[q].body = "array"
            /\ Len(response[q].items) = perPage
            /\ requested[q][Len(requested[q])] = page[q]
            /\ requested'[q] = Append(requested[q], page[q] + 1)]_vars

C2_Witness ==
  \E q \in Calls :
    /\ pc[q] = "awaitFetch"
    /\ requested[q] = <<1, 2>>
    /\ inflight[q] = {2}
    /\ Len(allReleases[q]) = perPage

\* C3: a failed page fetch ends the call in one error that carries none of
\* the releases of the earlier pages, and the failed page is the last one
\* requested
C3_FailureAborts ==
  \A q \in Calls :
    (pc[q] = "done" /\ caught[q] # "none") =>
      /\ reply[q].isError
      /\ reply[q].error = "FetchFailure"
      /\ reply[q].releases = <<>>
      /\ ~reply[q].found
      /\ requested[q] = [i \in 1..page[q] |-> i]
      /\ inflight[q] = {}

C3_Witness ==
  \E q \in Calls :
    /\ pc[q] = "done"
    /\ caught[q] = "status"
    /\ page[q] = 2
    /\ Len(allReleases[q]) = perPage
    /\ reply[q].isError

\* a version string the call supplies does not resolve
InvalidInput(q) ==
  \/ /\ call[q].tool = "github_release_info"
     /\ extractVersion(call[q].version) = Null
  \/ /\ call[q].tool = "github_releases_compare"
     /\ ~BoundsResolve(q)

\* C4: a lookup with an unresolvable version string ends in the
\* invalid-version error without any page request having been sent
C4_NoFetchOnInvalidInput ==
  \A q \in Calls :
    (Fetched(q) /\ InvalidInput(q)) =>
      /\ reply[q].error = "InvalidVersion"
      /\ requested[q] = <<>>

\* C5: a range lookup with from <= to returns every fetched release whose
\* normalized version equals from or to and whose PackageKey passes the
\* filter
C5_RangeInclusive ==
  \A q \in Calls :
    (RangeCall(q) /\ BoundsResolve(q)
       /\ semverCompare(CleanFrom(q), CleanTo(q)) <= 0) =>
      LET from == CleanFrom(q)
          to   == CleanTo(q)
      IN \A i \in 1..Len(allReleases[q]) :
           LET r == allReleases[q][i]
               v == extractVersion(r.tag_name)
           IN (/\ v # Null
               /\ semverCompare(v, from) = 0 \/ semverCompare(v, to) = 0
               /\ InPackage(r, call[q].packageName)) =>
                \E j \in 1..Len(reply[q].releases) : reply[q].releases[j] = r

C5_Witness ==
  \E q \in Calls :
    /\ RangeCall(q) /\ BoundsResolve(q)
    /\ Len(reply[q].releases) = 2
    /\ semverCompare(extractVersion(reply[q].releases[1].tag_name),
                     CleanFrom(q)) = 0
    /\ semverCompare(extractVersion(reply[q].releases[2].tag_name),
                     CleanTo(q)) = 0
    /\ semverCompare(CleanFrom(q), CleanTo(q)) < 0

\* C6: the result of a range lookup ascends by normalized version, and
\* releases of equal normalized version keep the order of the fetched
\* collection
C6_RangeSortedStable ==
  \A q \in Calls :
    (RangeCall(q) /\ ~reply[q].isError) =>
      \A i, j \in 1..Len(reply[q].releases) :
        i < j =>
          LET c == semverCompare(extractVersion(reply[q].releases[i].tag_name),
                                 extractVersion(reply[q].releases[j].tag_name))
          IN /\ c <= 0
             /\ c = 0 => PositionIn(q, reply[q].releases[i])
                           < PositionIn(q, reply[q].releases[j])

C6_Witness ==
  \E q \in Calls :
    /\ RangeCall(q) /\ ~reply[q].isError
    /\ Len(reply[q].releases) = 2
    /\ reply[q].releases[1].tag_name # reply[q].releases[2].tag_name
    /\ semverCompare(extractVersion(reply[q].releases[1].tag_name),
                     extractVersion(reply[q].releases[2].tag_name)) = 0

\* C7: the result of a range lookup is a permutation of the fetched releases
\* that have a resolvable version in [from, to] and pass the package filter
C7_RangeExact ==
  \A q \in Calls :
    (RangeCall(q) /\ BoundsResolve(q)) =>
      LET from == CleanFrom(q)
          to   == CleanTo(q)
          qualifying ==
            {i \in 1..Len(allReleases[q]) :
               /\ InRange(allReleases[q][i], from, to)
               /\ InPackage(allReleases[q][i], call[q].packageName)}
          result == reply[q].releases
      IN /\ ~reply[q].isError
         /\ Len(result) = Cardinality(qualifying)
         /\ \A i \in qualifying :
              \E j \in 1..Len(result) : result[j] = allReleases[q][i]
         /\ \A j \in 1..Len(result) :
              \E i \in qualifying : result[j] = allReleases[q][i]

C7_Witness ==
  \E q \in Calls :
    /\ RangeCall(q) /\ BoundsResolve(q)
    /\ call[q].packageName # Null
    /\ Len(reply[q].releases) = 1
    /\ \E i \in 1..Len(allReleases[q]) :
         /\ InRange(allReleases[q][i], CleanFrom(q), CleanTo(q))
         /\ ~InPackage(allReleases[q][i], call[q].packageName)

\* the fetched releases an exact lookup may return
ExactMatches(q) ==
  LET target == extractVersion(call[q].version)
  IN {i \in 1..Len(allReleases[q]) :
        /\ InRange(allReleases[q][i], target, target)
        /\ InPackage(allReleases[q][i], call[q].packageName)}

\* C8: an exact lookup with a resolvable target returns the first fetched
\* release whose normalized version equals the target's and whose PackageKey
\* passes the filter, and the non-error not-found result when there is none
C8_ExactFirstMatch ==
  \A q \in Calls :
    (ExactCall(q) /\ extractVersion(call[q].version) # Null) =>
      LET matches == ExactMatches(q)
      IN /\ ~reply[q].isError
         /\ matches = {} => ~reply[q].found /\ reply[q].releases = <<>>
         /\ matches # {} =>
              /\ reply[q].found
              /\ reply[q].releases =
                   <<allReleases[q][CHOOSE i \in matches :
                                      \A j \in matches : i <= j]>>

C8_Witness ==
  \E q \in Calls :
    /\ ExactCall(q)
    /\ Cardinality(ExactMatches(q)) = 2
    /\ reply[q].found
    /\ reply[q].releases[1].id = 1
    /\ reply[q].releases[1].tag_name # call[q].version

\* tag is base followed by a pre-release suffix: base, "-", identifiers
IsPreReleaseTagOf(tag, base) ==
  /\ Len(tag) > Len(base) + 1
  /\ SubSeq(tag, 1, Len(base)) = base
  /\ tag[Len(base) + 1] = "-"

\* C9: when the only fetched release of the 2.0.0 family is tagged
\* v2.0.0-beta, an exact lookup for "2.0.0" returns not-found
C9_PreReleaseNotEqual ==
  \A q \in Calls :
    (/\ ExactCall(q)
     /\ call[q].version = Str_200
     /\ call[q].packageName = Null
     /\ \E i \in 1..Len(allReleases[q]) :
          allReleases[q][i].tag_name = Str_v200beta
     /\ \A i \in 1..Len(allReleases[q]) :
          allReleases[q][i].tag_name # Str_v200) =>
      /\ ~reply[q].isError
      /\ ~reply[q].found

\* C10: in the result of a range lookup a release tagged vX.Y.Z-<pre> comes
\* before a release tagged vX.Y.Z
C10_PreReleaseFirst ==
  \A q \in Calls :
    (RangeCall(q) /\ ~reply[q].isError) =>
      \A i, j \in 1..Len(reply[q].releases) :
        (/\ reply[q].releases[j].tag_name[1] = "v"
         /\ IsDigitTriple(Tail(reply[q].releases[j].tag_name))
         /\ IsPreReleaseTagOf(reply[q].releases[i].tag_name,
                              reply[q].releases[j].tag_name)) => i < j

\* the string the invalid-version error of a range call must carry
FailedBound(q) ==
  IF CleanFrom(q) = Null THEN call[q].fromVersion ELSE call[q].toVersion

\* C11: a range lookup with an unresolvable bound ends in the
\* invalid-version error that carries the from string when from does not
\* resolve and the to string when only to does not, and never in a result
C11_InvalidBoundNamed ==
  \A q \in Calls :
    (/\ pc[q] = "done"
     /\ call[q].tool = "github_releases_compare"
     /\ ~BoundsResolve(q)) =>
      /\ reply[q].isError
      /\ reply[q].error = "InvalidVersion"
      /\ reply[q].detail = FailedBound(q)

ListCall(q) == Fetched(q) /\ call[q].tool = "github_releases_list"

\* positions of the fetched releases that pass the package filter and the
\* pre-release filter of a listing
Surviving(q) ==
  {i \in 1..Len(allReleases[q]) :
     /\ InPackage(allReleases[q][i], call[q].packageName)
     /\ call[q].includePreReleases \/ ~allReleases[q][i].prerelease}

\* the rank of position i among a set of positions: 1 for the smallest
RankIn(S, i) == Cardinality({k \in S : k <= i})

\* C12: a listing without includePreReleases returns no release whose
\* pre-release flag is set; with includePreReleases the pre-releases that
\* pass the package filter are kept (all of them when no limit truncates)
\* and the result is in the order of the fetched collection
C12_PreReleaseFilter ==
  \A q \in Calls :
    ListCall(q) =>
      LET result == reply[q].releases
      IN /\ ~call[q].includePreReleases =>
              \A j \in 1..Len(result) : ~result[j].prerelease
         /\ call[q].includePreReleases =>
              /\ call[q].limit <= 0 =>
                   \A i \in 1..Len(allReleases[q]) :
                     (/\ allReleases[q][i].prerelease
                      /\ InPackage(allReleases[q][i], call[q].packageName)) =>
                       \E j \in 1..Len(result) : result[j] = allReleases[q][i]
              /\ \A i, j \in 1..Len(result) :
                   i < j => PositionIn(q, result[i]) < PositionIn(q, result[j])

C12_Witness ==
  \E q \in Calls :
    /\ ListCall(q)
    /\ ~call[q].includePreReleases
    /\ call[q].limit = 0
    /\ Len(allReleases[q]) = 2
    /\ allReleases[q][1].prerelease
    /\ reply[q].releases = <<allReleases[q][2]>>

\* C13: with a positive limit n a listing returns the first n releases that
\* survive the filters, min(n, number of survivors) in all; with a limit
\* that is absent, zero or negative it returns every survivor
C13_Limit ==
  \A q \in Calls :
    ListCall(q) =>
      LET result == reply[q].releases
          count  == Cardinality(Surviving(q))
      IN /\ Len(result) = IF call[q].limit > 0 /\ call[q].limit < count
                            THEN call[q].limit ELSE count
         /\ \A j \in 1..Len(result) :
              /\ PositionIn(q, result[j]) \in Surviving(q)
              /\ RankIn(Surviving(q), PositionIn(q, result[j])) = j

C13_Witness ==
  \E q \in Calls :
    /\ ListCall(q)
    /\ call[q].limit = 1
    /\ Cardinality(Surviving(q)) = 2
    /\ reply[q].releases = <<allReleases[q][1]>>

\* C14: the result of a listing is a subsequence of the fetched collection
\* in its order, made of survivors of both filters, with no survivor
\* skipped before a returned one, and it is cut short only by a positive
\* limit counted on the survivors
C14_ListingOrder ==
  \A q \in Calls :
    ListCall(q) =>
      LET result == reply[q].releases
      IN /\ \A j \in 1..Len(result) : PositionIn(q, result[j]) \in Surviving(q)
         /\ \A i, j \in 1..Len(result) :
              i < j => PositionIn(q, result[i]) < PositionIn(q, result[j])
         /\ \A i \in Surviving(q) : \A j \in 1..Len(result) :
              i < PositionIn(q, result[j]) =>
                \E k \in 1..Len(result) : PositionIn(q, result[k]) = i
         /\ Len(result) < Cardinality(Surviving(q)) =>
              call[q].limit > 0 /\ Len(result) = call[q].limit

\* a listing of limit 1 whose first fetched release is filtered out, and a
\* listing that returns a later version before an earlier one
C14_Witness ==
  \E q \in Calls :
    /\ ListCall(q)
    /\ call[q].limit = 1
    /\ Len(allReleases[q]) = 2
    /\ 1 \notin Surviving(q)
    /\ reply[q].releases = <<allReleases[q][2]>>

\* the release's tag does not resolve to a version
Unresolvable(release) == extractVersion(release.tag_name) = Null

\* C15: an exact or range lookup with resolvable inputs does not fail when
\* fetched releases have unresolvable tags, and returns none of them; a
\* listing returns them like any other release
C15_UnresolvableTagsHarmless ==
  \A q \in Calls :
    /\ ((RangeCall(q) \/ ExactCall(q)) /\ ~InvalidInput(q)) =>
         /\ ~reply[q].isError
         /\ \A j \in 1..Len(reply[q].releases) :
              ~Unresolvable(reply[q].releases[j])
    /\ (ListCall(q) /\ call[q].limit <= 0) =>
         \A i \in Surviving(q) :
           Unresolvable(allReleases[q][i]) =>
             \E j \in 1..Len(reply[q].releases) :
               reply[q].releases[j] = allReleases[q][i]

C15_Witness ==
  \E q \in Calls :
    /\ RangeCall(q) /\ BoundsResolve(q)
    /\ Len(allReleases[q]) = 2
    /\ Unresolvable(allReleases[q][1])
    /\ ~reply[q].isError
    /\ reply[q].releases = <<allReleases[q][2]>>

\* a string has been put through extractVersion
Normalized == probe.pc \in {"normalized", "renormalized", "scoped", "selected"}

\* the numerals of the probed triple have no leading zero
CanonicalTriple ==
  \A i \in 1..3 : Split(probe.triple)[i] \in CanonicalNumerals

\* the probed string is "v<M>.<m>.<p>", "<M>.<m>.<p>" or "@<M>.<m>.<p>"
ThreeShapes == {Lead_none, Lead_v, Lead_at}
OneOfThreeShapes ==
  probe.lead \in ThreeShapes /\ probe.tail = <<>> /\ CanonicalTriple

\* the releases of ProbeReleases tagged with the probed triple
TaggedWithTriple ==
  LET tagged(release) ==
        release.tag_name \in {probe.triple, Lead_v \o probe.triple,
                              Lead_pkg \o probe.triple}
  IN SelectSeq(ProbeReleases, tagged)

\* C16: each of the three input shapes of a triple normalizes to the
\* canonical string of that triple, and used as the bounds of a lookup each
\* selects the releases tagged with that triple
C16_ThreeShapesAgree ==
  (Normalized /\ OneOfThreeShapes) =>
    /\ probe.version = probe.triple
    /\ probe.pc = "selected" => probe.selected = Returned(TaggedWithTriple)

C16_Witness ==
  /\ probe.pc = "selected"
  /\ probe.lead = Lead_at
  /\ OneOfThreeShapes
  /\ probe.triple = Str_200
  /\ Len(probe.selected.items) = 2

\* C17: normalizing a version the normalizer returned gives that version
C17_Idempotent ==
  probe.pc = "renormalized" => probe.again = probe.version

\* the tag ends with "@" and a dotted triple of digits
EndsWithAtTriple ==
  /\ probe.tail = <<>>
  /\ probe.lead \in {Lead_at, Lead_pkg, Lead_astro, Lead_v100at}

\* the tag begins with an optional "v" and a dotted triple of digits; the
\* triple it begins with
BeginsWithTriple == probe.lead \in {Lead_none, Lead_v, Lead_v100at}
LeadingTriple == IF probe.lead = Lead_v100at THEN Str_100 ELSE probe.triple

\* a triple as a version: itself, or none when a numeral has a leading zero
AsVersion(triple) ==
  IF \A i \in 1..3 : Split(triple)[i] \in CanonicalNumerals
    THEN triple ELSE Null

\* the whole tag as a version, for the tags that match neither pattern
WholeTagVersion ==
  IF probe.lead \in {Lead_equals, Lead_space} /\ CanonicalTriple
    THEN IF probe.tail \in {<<>>, <<" ">>, <<"+", "b", "1">>}
           THEN probe.triple
         ELSE IF probe.tail = Str_beta THEN probe.triple \o Str_beta
         ELSE Null
    ELSE Null

\* C18: a trailing "@" triple is taken before a leading triple, the whole
\* string is parsed only when the tag has neither, and what is no valid
\* version comes out as unresolvable
C18_StrategyOrder ==
  Normalized =>
    probe.version =
      IF EndsWithAtTriple THEN AsVersion(probe.triple)
      ELSE IF BeginsWithTriple THEN AsVersion(LeadingTriple)
      ELSE WholeTagVersion

C18_Witness ==
  /\ Normalized
  /\ probe.lead = Lead_v100at
  /\ probe.tail = <<>>
  /\ probe.triple = Str_200
  /\ probe.version = Str_200

\* the package prefix the tag was built with, and the one of the name
TagPackage ==
  IF probe.lead = Lead_pkg THEN Str_pkg
  ELSE IF probe.lead = Lead_astro THEN Str_astro
  ELSE IF probe.lead = Lead_v100at THEN Str_v100
  ELSE Null
NamePackage ==
  IF probe.name = Str_oth \o <<"@">> \o Str_100 THEN Str_oth
  ELSE IF probe.name = Str_scoped \o <<"@">> \o Str_100 THEN Str_scoped
  ELSE Null

NothingMatches(q) ==
  IF call[q].tool = "github_release_info" THEN ExactMatches(q) = {}
  ELSE IF call[q].tool = "github_releases_compare"
    THEN \A i \in 1..Len(allReleases[q]) :
           ~(/\ InRange(allReleases[q][i], CleanFrom(q), CleanTo(q))
             /\ InPackage(allReleases[q][i], call[q].packageName))
  ELSE Surviving(q) = {}

\* C20: a call whose fetch succeeded and matched nothing is answered
\* without isError by an empty or not-found result, and a call one of whose
\* page fetches failed is answered with isError and with no result
C20_NoDataIsNotAnError ==
  \A q \in Calls :
    pc[q] = "done" =>
      /\ (caught[q] = "none" /\ ~InvalidInput(q) /\ NothingMatches(q)) =>
           /\ ~reply[q].isError
           /\ ~reply[q].found
           /\ reply[q].releases = <<>>
      /\ caught[q] # "none" => reply[q].isError
      /\ reply[q].isError => ~reply[q].found /\ reply[q].releases = <<>>

C20_Witness ==
  \E q \in Calls :
    /\ Fetched(q)
    /\ call[q].tool = "github_release_info"
    /\ ~InvalidInput(q)
    /\ Len(allReleases[q]) = 2
    /\ NothingMatches(q)
    /\ ~reply[q].isError
    /\ ~reply[q].found

\* the page numbers 1 .. n in increasing order
FirstPages(n) == [i \in 1..n |-> i]

\* C21: a call requests the pages 1, 2, ..., k in that order and each once,
\* a page that failed or ended the fetch is followed by no further request,
\* and a call that starts, also after an earlier call on the same
\* repository, starts at page 1 with an empty collection
C21_OneFetchPerQuery ==
  [][\A q \in Calls :
       /\ requested'[q] = FirstPages(Len(requested'[q]))
       /\ (pc[q] = "idle" /\ pc'[q] # "idle") =>
            /\ requested'[q] = <<1>>
            /\ page'[q] = 1
            /\ allReleases'[q] = <<>>
       /\ (pc[q] \in {"awaitFetch", "awaitJson"}) =>
            \/ requested'[q] = requested[q]
            \/ requested'[q] = Append(requested[q], Len(requested[q]) + 1)
       /\ pc[q] = "done" =>
            /\ pc'[q] \in {"done", "idle"}
            /\ requested'[q] \in {requested[q], <<>>}]_vars

C21_Witness ==
  \E q \in Calls :
    /\ pc[q] = "done"
    /\ caught[q] = "network"
    /\ requested[q] = <<1, 2>>
    /\ Len(allReleases[q]) = perPage

\* the releases call q read off its own pages: the full pages before its
\* last page, and its last page when that was an array
OwnPages(q) ==
  SubSeq(remote, 1, (page[q] - 1) * perPage)
    \o (IF response[q].body = "array" THEN PageOf(remote, page[q]) ELSE <<>>)

\* C22: with two calls interleaving at their fetches, each call counts its
\* own pages and collects its own releases, and its answer is the one its
\* own arguments and its own pages give, whatever the other call does
C22_QueriesIndependent ==
  \A q \in Calls :
    /\ pc[q] # "idle" => requested[q] = FirstPages(page[q])
    /\ pc[q] \in {"awaitFetch", "awaitJson"} =>
         allReleases[q] = SubSeq(remote, 1, (page[q] - 1) * perPage)
    /\ Fetched(q) =>
         /\ allReleases[q] = OwnPages(q)
         /\ reply[q] = toolResponse(resolve(call[q], OwnPages(q)))
    /\ (pc[q] = "done" /\ caught[q] # "none") =>
         reply[q] = toolResponse(Thrown("FetchFailure", Null))

\* two calls answered from the same repository: one read its two pages,
\* the other stopped at a first page that was no array
C22_Witness ==
  /\ Fetched(1) /\ Fetched(2)
  /\ call[1] # call[2]
  /\ page[1] = 2 /\ Len(allReleases[1]) = perPage
  /\ page[2] = 1 /\ allReleases[2] = <<>>
  /\ reply[1] # reply[2]

\* the call was answered after an ok response whose body was no array
EndedByNonArray(q) ==
  pc[q] = "done" /\ response[q].ok /\ response[q].body = "object"

\* C23: an ok page whose body is no array ends the fetch like an empty
\* page: nothing is caught, the releases of the earlier pages are the whole
\* collection the call works on, and the answer is no fetch error
C23_NonArrayEndsFetch ==
  \A q \in Calls :
    EndedByNonArray(q) =>
      /\ caught[q] = "none"
      /\ allReleases[q] = SubSeq(remote, 1, (page[q] - 1) * perPage)
      /\ reply[q].error # "FetchFailure"
      /\ ~InvalidInput(q) => ~reply[q].isError

\* a listing answered with the first page only of a longer collection
C23_Witness ==
  \E q \in Calls :
    /\ EndedByNonArray(q)
    /\ page[q] = 2
    /\ call[q].tool = "github_releases_list"
    /\ call[q].limit = 0
    /\ ~reply[q].isError
    /\ Len(reply[q].releases) = perPage
    /\ Len(remote) > perPage

\* both lookups have run on the collection, with a version that resolves
BothLookedUp == probe.pc = "both" /\ extractVersion(probe.version) # Null

\* C24: for a resolvable version v, exact lookup of v finds a release
\* exactly when range lookup from v to v is non-empty, and the release it
\* finds is the first of that range result
C24_ExactAgreesWithRange ==
  BothLookedUp =>
    /\ probe.exact.threw = "none"
    /\ probe.range.threw = "none"
    /\ probe.exact.items # <<>> <=> probe.range.items # <<>>
    /\ probe.exact.items # <<>> =>
         probe.exact.items[1] = probe.range.items[1]

C24_Witness ==
  /\ BothLookedUp
  /\ Len(probe.range.items) = 2
  /\ probe.range.items[1].tag_name # probe.range.items[2].tag_name
  /\ probe.exact.items = <<probe.range.items[1]>>

\* both bounds of a range call resolve and from is the greater
ReversedRange(q) ==
  /\ RangeCall(q) /\ BoundsResolve(q)
  /\ semverCompare(CleanFrom(q), CleanTo(q)) > 0

\* C25: a range lookup whose from is greater than its to is answered with
\* the empty result and without an error
C25_ReversedRangeEmpty ==
  \A q \in Calls :
    ReversedRange(q) =>
      /\ ~reply[q].isError
      /\ ~reply[q].found
      /\ reply[q].releases = <<>>

\* a fetched release lies between the swapped bounds and is not returned
C25_Witness ==
  \E q \in Calls :
    /\ ReversedRange(q)
    /\ reply[q].releases = <<>>
    /\ \E i \in 1..Len(allReleases[q]) :
         /\ InRange(allReleases[q][i], CleanTo(q), CleanFrom(q))
         /\ InPackage(allReleases[q][i], call[q].packageName)

=============================================================================
